---------------------------- MODULE Spec2Model ----------------------------
(***************************************************************************)
(* State-machine model of the sampling engine of venv_monitor:             *)
(*   - monitor_graph.py: GraphMonitor (rolling histories, network rates,   *)
(*     temperature extrema, periodic update_graphs callback);              *)
(*   - monitor.py: FloatingMonitor (network rates, labels, periodic        *)
(*     update_stats callback) and read_temperature.                        *)
(* The two scripts are separate programs; `program` says which one runs.   *)
(*                                                                         *)
(* Floats are modelled as records [k, v]: k = "fin" (finite, value v),     *)
(* "inf" (v = 1 for +inf, v = -1 for -inf) or "nan".  Percentages, byte    *)
(* counters and KB/s speeds are integers; the byte counters of the model   *)
(* differ by multiples of 1024, so the float quotient delta / 1024.0 is    *)
(* the integer quotient.                                                   *)
(***************************************************************************)
EXTENDS Integers, Sequences, FiniteSets

\* ------------------------------------------------------------------ bounds
\* GraphMonitor(max_points): history capacity (60 in main(), scaled down).
max_points == 2
\* Number of update_graphs ticks whose reads all succeed that the model follows.
MaxTicks == 4

\* ------------------------------------------------------- program constants
BytesPerKB == 1024
MilliPerDegree == 1000
YMargin == 5

\* ------------------------------------------------------------------ floats
Fin(v) == [k |-> "fin", v |-> v]
NaN == [k |-> "nan", v |-> 0]
PosInf == [k |-> "inf", v |-> 1]
NegInf == [k |-> "inf", v |-> -1]

IsNaN(a) == a.k = "nan"

\* a < b on floats: every comparison with NaN is False.
FLt(a, b) ==
    /\ a.k # "nan"
    /\ b.k # "nan"
    /\ CASE a.k = "inf" /\ a.v < 0 -> ~(b.k = "inf" /\ b.v < 0)
         [] a.k = "inf" /\ a.v > 0 -> FALSE
         [] b.k = "inf" -> b.v > 0
         [] OTHER -> a.v < b.v

\* a > b on floats.
FGt(a, b) == FLt(b, a)

\* a + d for an integer d.
FAdd(a, d) == IF a.k = "fin" THEN Fin(a.v + d) ELSE a

\* Whether matplotlib accepts the value as an axis limit.
IsFinite(a) == a.k = "fin"

\* ------------------------------------------------------------------ inputs
CpuReadings == {10, 20}
MemReadings == {30}
DiskReadings == {50}
\* psutil.net_io_counters() snapshots.
IoSnapshots == { [bytes_recv |-> 1000, bytes_sent |-> 2024],
                 [bytes_recv |-> 2024, bytes_sent |-> 1000] }
\* Which read of a tick raises ("none": no read raises).
ReadFailures == {"none", "cpu", "mem", "disk", "net"}

\* psutil.sensors_temperatures(): the query raises, or returns an ordered
\* mapping, a sequence of [key, readings] with distinct keys in enumeration
\* order; readings is the list of `current` values of that sensor.
SensorKeys == {"cpu_thermal", "gpu_thermal", "nvme"}
Entries == { [key |-> key, readings |-> r] :
               key \in SensorKeys, r \in {<<>>, <<50>>, <<60, 50>>} }
Mappings == {<<>>} \cup { <<e>> : e \in Entries } \cup
            { <<p[1], p[2]>> : p \in { q \in Entries \X Entries : q[1].key # q[2].key } }
Registries == { [raises |-> FALSE, temps |-> m] : m \in Mappings } \cup
              { [raises |-> TRUE, temps |-> <<>>] }

\* /sys/class/thermal/thermal_zone0/temp: missing (FileNotFoundError), not
\* readable (PermissionError), text that float() rejects (ValueError), or a
\* number of millidegrees.
Files == { [kind |-> "missing", millis |-> 0],
           [kind |-> "denied", millis |-> 0],
           [kind |-> "garbage", millis |-> 0],
           [kind |-> "numeric", millis |-> 45000],
           [kind |-> "numeric", millis |-> 0] }

\* The sensor environments the GraphMonitor ticks draw from.
TickRegistries == { [raises |-> FALSE, temps |-> <<>>],
                    [raises |-> FALSE,
                     temps |-> << [key |-> "cpu_thermal", readings |-> <<50>>] >>] }
TickFiles == { [kind |-> "missing", millis |-> 0],
               [kind |-> "numeric", millis |-> 45000] }

VARIABLES
    program,          \* which script runs: "monitor_graph", "monitor", "none"
    status,           \* "Idle" (fields set, no tick yet), "Running" (next tick
                      \* scheduled with root.after), "Stopped" (a tick raised)
    cpu_data, mem_data, disk_data, net_down_data, net_up_data, temp_data,
    prev_recv, prev_sent,
    max_temp, min_temp,
    temp_stats_label, \* GraphMonitor: <<>> or <<temp, max_temp, min_temp>>
    cpu_label, mem_label, disk_label, net_label, temp_label,  \* FloatingMonitor
    baseline,         \* history: the counters stored at construction
    log,              \* history: one record per tick whose reads all succeeded
    last,             \* history: what the last tick read and where it raised
    sensors, thermal_file, temp_call  \* the temperature functions on their own

vars == << program, status, cpu_data, mem_data, disk_data, net_down_data,
           net_up_data, temp_data, prev_recv, prev_sent, max_temp, min_temp,
           temp_stats_label, cpu_label, mem_label, disk_label, net_label,
           temp_label, baseline, log, last, sensors, thermal_file, temp_call >>

graph_vars == << cpu_data, mem_data, disk_data, net_down_data, net_up_data,
                 temp_data, max_temp, min_temp, temp_stats_label, log >>
float_vars == << cpu_label, mem_label, disk_label, net_label, temp_label >>
temp_vars == << sensors, thermal_file, temp_call >>

\* ------------------------------------------------------ temperature reads
HasReadings(temps, key) ==
    \E i \in 1..Len(temps) : temps[i].key = key /\ temps[i].readings # <<>>

ReadingsOf(temps, key) ==
    temps[CHOOSE i \in 1..Len(temps) : temps[i].key = key].readings

Returned(value, opened) ==
    [outcome |-> "return", value |-> value, exc |-> "", file_opened |-> opened]
Raised(exc) ==
    [outcome |-> "raise", value |-> NaN, exc |-> exc, file_opened |-> TRUE]

\* Mutant: every sensor is searched for a reading, not only the first one.
SensorBranchAnySensor(temps) ==
    IF temps = <<>> THEN <<>>
    ELSE IF HasReadings(temps, "cpu_thermal")
         THEN << Fin(ReadingsOf(temps, "cpu_thermal")[1]) >>
    ELSE IF \E i \in 1..Len(temps) : temps[i].readings # <<>>
         THEN << Fin(temps[CHOOSE i \in 1..Len(temps) :
                            /\ temps[i].readings # <<>>
                            /\ \A j \in 1..(i - 1) : temps[j].readings = <<>>
                         ].readings[1]) >>
    ELSE <<>>

\* The first return of the sensor branch, <<>> when it falls through.
SensorBranch(temps) ==
    IF temps = <<>> THEN <<>>
    ELSE IF HasReadings(temps, "cpu_thermal")
         THEN << Fin(ReadingsOf(temps, "cpu_thermal")[1]) >>
    ELSE IF temps[1].readings # <<>> THEN << Fin(temps[1].readings[1]) >>
    ELSE <<>>

\* monitor.py read_temperature(): only FileNotFoundError is handled.
read_temperature(reg, file) ==
    LET temps == IF reg.raises THEN <<>> ELSE reg.temps
        found == SensorBranch(temps)
    IN  IF found # <<>> THEN Returned(found[1], FALSE)
        ELSE CASE file.kind = "missing" -> Returned(NaN, TRUE)
               [] file.kind = "denied" -> Raised("PermissionError")
               [] file.kind = "garbage" -> Raised("ValueError")
               [] OTHER -> Returned(Fin(file.millis \div MilliPerDegree), TRUE)

\* monitor_graph.py GraphMonitor._read_temp(): every exception gives NaN.
_read_temp(reg, file) ==
    LET found == IF reg.raises THEN <<>> ELSE SensorBranch(reg.temps)
    IN  IF found # <<>> THEN Returned(found[1], FALSE)
        ELSE IF file.kind = "numeric"
             THEN Returned(Fin(file.millis \div MilliPerDegree), TRUE)
             ELSE Returned(NaN, TRUE)

\* ------------------------------------------------------- pure tick helpers
\* Mutant: the capacity test is >= instead of >.
TrimAtCapacity(lst) == IF Len(lst) >= max_points THEN Tail(lst) ELSE lst

\* Mutant: lst.pop() instead of lst.pop(0), the newest element is dropped.
TrimNewest(lst) ==
    IF Len(lst) > max_points THEN SubSeq(lst, 1, Len(lst) - 1) ELSE lst

\* for lst in (...): if len(lst) > self.max_points: lst.pop(0)
Trim(lst) == IF Len(lst) > max_points THEN Tail(lst) ELSE lst

\* (io.bytes_recv - self.prev_recv) / 1024.0
Speed(curr, prev) == (curr - prev) \div BytesPerKB

\* Mutant: the stored counter is not replaced.
StaleCounter(curr, prev) == prev

\* self.prev_recv, self.prev_sent = io.bytes_recv, io.bytes_sent
StoredCounter(curr, prev) == curr

\* Mutant: the maximum is overwritten by every reading.
UpdateMaxAlways(temp, m) == temp

\* Mutant: the test is "not temp <= self.max_temp", which NaN passes.
UpdateMaxNotLe(temp, m) == IF ~(FLt(temp, m) \/ (~IsNaN(temp) /\ temp = m)) THEN temp ELSE m

\* if temp > self.max_temp: self.max_temp = temp
UpdateMax(temp, m) == IF FGt(temp, m) THEN temp ELSE m

\* if temp < self.min_temp: self.min_temp = temp
UpdateMin(temp, m) == IF FLt(temp, m) THEN temp ELSE m

\* Python's min() and max() of a non-empty list: the first element, replaced
\* by each later one that compares strictly below (above) the result so far.
RECURSIVE PyFold(_, _, _, _)
PyFold(lst, i, acc, wantMin) ==
    IF i > Len(lst) THEN acc
    ELSE PyFold(lst, i + 1,
                IF (wantMin /\ FLt(lst[i], acc)) \/ (~wantMin /\ FGt(lst[i], acc))
                THEN lst[i] ELSE acc,
                wantMin)
PyMin(lst) == PyFold(lst, 2, lst[1], TRUE)
PyMax(lst) == PyFold(lst, 2, lst[1], FALSE)

\* self.ax_temp.set_ylim(min(self.temp_data) - 5, max(self.temp_data) + 5):
\* matplotlib raises ValueError for a limit that is NaN or infinite.
SetYLimAccepts(lst) ==
    /\ IsFinite(FAdd(PyMin(lst), -YMargin))
    /\ IsFinite(FAdd(PyMax(lst), YMargin))

\* temp_text of update_stats: "N/A" for NaN, the number otherwise.
TempText(temp_c) ==
    IF IsNaN(temp_c) THEN [text |-> "N/A", v |-> 0]
    ELSE [text |-> "5.1f", v |-> temp_c.v]

\* How many of the four psutil reads of a tick succeed before one raises.
ReadStage(raises) ==
    CASE raises = "cpu" -> 0
      [] raises = "mem" -> 1
      [] raises = "disk" -> 2
      [] raises = "net" -> 3
      [] OTHER -> 4

NoCall == [fn |-> "none", res |-> Returned(NaN, FALSE)]
NoIo == [bytes_recv |-> -1, bytes_sent |-> -1]
NoSensors == [raises |-> FALSE, temps |-> <<>>]
NoFile == [kind |-> "missing", millis |-> 0]
LastTick(raised, io) ==
    [raised |-> raised, prev_recv |-> prev_recv, prev_sent |-> prev_sent,
     recv |-> io.bytes_recv, sent |-> io.bytes_sent]

\* ------------------------------------------------------------------- Init
\* GraphMonitor.__init__ up to the first update_graphs() call, or
\* FloatingMonitor.__init__ up to the first update_stats() call.
Init ==
    /\ program \in {"monitor_graph", "monitor"}
    /\ status = "Idle"
    /\ cpu_data = <<>> /\ mem_data = <<>> /\ disk_data = <<>>
    /\ net_down_data = <<>> /\ net_up_data = <<>> /\ temp_data = <<>>
    /\ \E io1 \in IoSnapshots, io2 \in IoSnapshots :
          \* GraphMonitor calls net_io_counters() twice, FloatingMonitor once.
          /\ program = "monitor" => io1 = io2
          /\ prev_recv = io1.bytes_recv
          /\ prev_sent = io2.bytes_sent
    /\ baseline = [bytes_recv |-> prev_recv, bytes_sent |-> prev_sent]
    /\ max_temp = NegInf /\ min_temp = PosInf
    /\ temp_stats_label = <<>>
    /\ cpu_label = <<>> /\ mem_label = <<>> /\ disk_label = <<>>
    /\ net_label = <<>> /\ temp_label = <<>>
    /\ log = <<>>
    /\ last = [raised |-> "none", prev_recv |-> -1, prev_sent |-> -1,
               recv |-> -1, sent |-> -1]
    /\ sensors = NoSensors
    /\ thermal_file = NoFile
    /\ temp_call = NoCall

\* ---------------------------------------------- GraphMonitor.update_graphs
GraphTick(raises, cpu, mem, disk, io, reg, file) ==
    LET stage == ReadStage(raises)
        cpu1 == IF stage >= 1 THEN Append(cpu_data, cpu) ELSE cpu_data
        mem1 == IF stage >= 2 THEN Append(mem_data, mem) ELSE mem_data
        disk1 == IF stage >= 3 THEN Append(disk_data, disk) ELSE disk_data
    IN  IF stage < 4
        THEN \* a psutil read raised: the callback ends, nothing is rescheduled
             /\ cpu_data' = cpu1
             /\ mem_data' = mem1
             /\ disk_data' = disk1
             /\ status' = "Stopped"
             /\ last' = LastTick(raises, NoIo)
             /\ UNCHANGED << net_down_data, net_up_data, temp_data, prev_recv,
                             prev_sent, max_temp, min_temp, temp_stats_label,
                             log >>
        ELSE LET down_speed == Speed(io.bytes_recv, prev_recv)
                 up_speed == Speed(io.bytes_sent, prev_sent)
                 temp == _read_temp(reg, file).value
                 new_max == UpdateMax(temp, max_temp)
                 new_min == UpdateMin(temp, min_temp)
                 temp1 == Trim(Append(temp_data, temp))
                 drawn == SetYLimAccepts(temp1)
             IN  /\ cpu_data' = Trim(cpu1)
                 /\ mem_data' = Trim(mem1)
                 /\ disk_data' = Trim(disk1)
                 /\ prev_recv' = StoredCounter(io.bytes_recv, prev_recv)
                 /\ prev_sent' = StoredCounter(io.bytes_sent, prev_sent)
                 /\ net_down_data' = Trim(Append(net_down_data, down_speed))
                 /\ net_up_data' = Trim(Append(net_up_data, up_speed))
                 /\ temp_data' = temp1
                 /\ max_temp' = new_max
                 /\ min_temp' = new_min
                 /\ temp_stats_label' =
                       IF drawn THEN <<temp, new_max, new_min>>
                       ELSE temp_stats_label
                 /\ status' = IF drawn THEN "Running" ELSE "Stopped"
                 /\ log' = Append(log, [cpu |-> cpu, mem |-> mem, disk |-> disk,
                                        recv |-> io.bytes_recv,
                                        sent |-> io.bytes_sent,
                                        down |-> down_speed, up |-> up_speed,
                                        temp |-> temp])
                 /\ last' = LastTick(IF drawn THEN "none" ELSE "render", io)

update_graphs ==
    /\ program = "monitor_graph"
    /\ status \in {"Idle", "Running"}
    /\ Len(log) < MaxTicks
    /\ \E raises \in ReadFailures, cpu \in CpuReadings, mem \in MemReadings,
          disk \in DiskReadings :
          IF raises = "none"
          THEN \E io \in IoSnapshots, reg \in TickRegistries, file \in TickFiles :
                  GraphTick(raises, cpu, mem, disk, io, reg, file)
          ELSE \* the reads after the one that raises are never made
               GraphTick(raises, cpu, mem, disk, NoIo, NoSensors, NoFile)
    /\ UNCHANGED << program, baseline, float_vars, temp_vars >>

\* ------------------------------------------- FloatingMonitor.update_stats
StatsTick(raises, cpu, mem, disk, io, reg, file) ==
    IF ReadStage(raises) < 4
    THEN \* a psutil read raised before any field or label was assigned
         /\ status' = "Stopped"
         /\ last' = LastTick(raises, NoIo)
         /\ UNCHANGED << prev_recv, prev_sent, float_vars >>
    ELSE LET down_speed == Speed(io.bytes_recv, prev_recv)
             up_speed == Speed(io.bytes_sent, prev_sent)
             res == read_temperature(reg, file)
         IN  /\ prev_recv' = StoredCounter(io.bytes_recv, prev_recv)
             /\ prev_sent' = StoredCounter(io.bytes_sent, prev_sent)
             /\ IF res.outcome = "raise"
                THEN /\ status' = "Stopped"
                     /\ last' = LastTick("temp", io)
                     /\ UNCHANGED float_vars
                ELSE /\ cpu_label' = <<cpu>>
                     /\ mem_label' = <<mem>>
                     /\ disk_label' = <<disk>>
                     /\ net_label' = <<down_speed, up_speed>>
                     /\ temp_label' = <<TempText(res.value)>>
                     /\ status' = "Running"
                     /\ last' = LastTick("none", io)

update_stats ==
    /\ program = "monitor"
    /\ status \in {"Idle", "Running"}
    /\ \E raises \in ReadFailures, cpu \in CpuReadings, mem \in MemReadings,
          disk \in DiskReadings :
          IF raises = "none"
          THEN \E io \in IoSnapshots, reg \in Registries, file \in Files :
                  StatsTick(raises, cpu, mem, disk, io, reg, file)
          ELSE \* the reads after the one that raises are never made
               StatsTick(raises, cpu, mem, disk, NoIo, NoSensors, NoFile)
    /\ UNCHANGED << program, baseline, graph_vars, temp_vars >>

Next == update_graphs \/ update_stats

Spec == Init /\ [][Next]_vars

\* ------------------------------- the temperature functions on their own
InitTemp ==
    /\ program = "none"
    /\ status = "Idle"
    /\ cpu_data = <<>> /\ mem_data = <<>> /\ disk_data = <<>>
    /\ net_down_data = <<>> /\ net_up_data = <<>> /\ temp_data = <<>>
    /\ prev_recv = 0 /\ prev_sent = 0
    /\ baseline = [bytes_recv |-> 0, bytes_sent |-> 0]
    /\ max_temp = NegInf /\ min_temp = PosInf
    /\ temp_stats_label = <<>>
    /\ cpu_label = <<>> /\ mem_label = <<>> /\ disk_label = <<>>
    /\ net_label = <<>> /\ temp_label = <<>>
    /\ log = <<>>
    /\ last = [raised |-> "none", prev_recv |-> -1, prev_sent |-> -1,
               recv |-> -1, sent |-> -1]
    /\ sensors \in Registries
    /\ thermal_file \in Files
    /\ temp_call = NoCall

CallReadTemperature ==
    /\ temp_call.fn = "none"
    /\ temp_call' = [fn |-> "read_temperature",
                     res |-> read_temperature(sensors, thermal_file)]
    /\ UNCHANGED << program, status, prev_recv, prev_sent, baseline, last,
                    graph_vars, float_vars, sensors, thermal_file >>

CallReadTemp ==
    /\ temp_call.fn = "none"
    /\ temp_call' = [fn |-> "_read_temp",
                     res |-> _read_temp(sensors, thermal_file)]
    /\ UNCHANGED << program, status, prev_recv, prev_sent, baseline, last,
                    graph_vars, float_vars, sensors, thermal_file >>

NextTemp == CallReadTemperature \/ CallReadTemp

SpecTemp == InitTemp /\ [][NextTemp]_vars

\* ================================================================ claims
\* Every tick so far made all four psutil reads (the last one may still have
\* raised while drawing).
AllReadsOk == last.raised \in {"none", "render"}

Histories == << cpu_data, mem_data, disk_data, net_down_data, net_up_data,
                temp_data >>

LastN(seq, n) ==
    IF Len(seq) <= n THEN seq ELSE SubSeq(seq, Len(seq) - n + 1, Len(seq))

CpuLog == [i \in 1..Len(log) |-> log[i].cpu]
MemLog == [i \in 1..Len(log) |-> log[i].mem]
DiskLog == [i \in 1..Len(log) |-> log[i].disk]
DownLog == [i \in 1..Len(log) |-> log[i].down]
UpLog == [i \in 1..Len(log) |-> log[i].up]
TempLog == [i \in 1..Len(log) |-> log[i].temp]

\* The counters tick i computes its speeds against.
PrevRecvAt(i) == IF i = 1 THEN baseline.bytes_recv ELSE log[i - 1].recv
PrevSentAt(i) == IF i = 1 THEN baseline.bytes_sent ELSE log[i - 1].sent

\* a >= b on floats.
FGe(a, b) == FGt(a, b) \/ (~IsNaN(a) /\ a = b)

SeenValid == \E i \in 1..Len(log) : ~IsNaN(log[i].temp)
ValidTemps == { log[i].temp.v : i \in { j \in 1..Len(log) : ~IsNaN(log[j].temp) } }
MaxValid ==
    IF ValidTemps = {} THEN NegInf
    ELSE Fin(CHOOSE v \in ValidTemps : \A w \in ValidTemps : w <= v)
MinValid ==
    IF ValidTemps = {} THEN PosInf
    ELSE Fin(CHOOSE v \in ValidTemps : \A w \in ValidTemps : v <= w)

\* C1: after n ticks that all completed their reads, every history list of
\* GraphMonitor holds at most max_points values, and exactly max_points once
\* n >= max_points.
C1_HistoryBounded ==
    (program = "monitor_graph" /\ AllReadsOk) =>
        \A h \in 1..Len(Histories) :
            /\ Len(Histories[h]) <= max_points
            /\ Len(log) < max_points => Len(Histories[h]) = Len(log)
            /\ Len(log) >= max_points => Len(Histories[h]) = max_points

\* C1 witness: more ticks than max_points have completed and the lists are full.
C1_Witness ==
    /\ program = "monitor_graph"
    /\ status = "Running"
    /\ Len(log) > max_points
    /\ Len(cpu_data) = max_points
    /\ Len(temp_data) = max_points

C3_RateClamp ==
    /\ \A i \in 1..Len(log) :
          /\ log[i].recv < PrevRecvAt(i) => log[i].down = 0
          /\ log[i].sent < PrevSentAt(i) => log[i].up = 0
    /\ \A i \in 1..Len(net_down_data) : net_down_data[i] >= 0
    /\ \A i \in 1..Len(net_up_data) : net_up_data[i] >= 0
    /\ net_label # <<>> => (net_label[1] >= 0 /\ net_label[2] >= 0)

\* The state part of C4: the extrema before and after a valid observation.
C4_ExtremaInv ==
    /\ SeenValid => FGe(max_temp, min_temp)
    /\ ~SeenValid => (max_temp = NegInf /\ min_temp = PosInf)

\* C4: from one tick to the next max_temp never decreases and min_temp never
\* increases; once a valid temperature was observed max_temp >= min_temp;
\* before any valid observation they are -infinity and +infinity.
C4_ExtremaMonotone ==
    [][ /\ FGe(max_temp', max_temp)
        /\ FGe(min_temp, min_temp')
        /\ C4_ExtremaInv
        /\ C4_ExtremaInv' ]_vars

\* C4 witness: unavailable and valid readings were seen, the extrema differ.
C4_Witness ==
    /\ program = "monitor_graph"
    /\ Len(log) >= 3
    /\ \E i \in 1..Len(log) : IsNaN(log[i].temp)
    /\ max_temp = Fin(50)
    /\ min_temp = Fin(45)
    /\ log[Len(log)].temp = Fin(45)
    /\ log[1].temp = Fin(50)

\* C5 (as claimed): read_temperature and _read_temp never raise, and return
\* the NaN sentinel when neither the registry nor the file yields a reading.
C5_TempNeverRaises ==
    temp_call.fn # "none" =>
        /\ temp_call.res.outcome = "return"
        /\ ( /\ (sensors.raises \/
                 \A i \in 1..Len(sensors.temps) : sensors.temps[i].readings = <<>>)
             /\ thermal_file.kind # "numeric" )
           => IsNaN(temp_call.res.value)

\* C6 (as claimed): a tick whose memory read raises still completes: the
\* scheduler is Running after it, and GraphMonitor's lists were all extended.
C6_SkipOnFailure ==
    last.raised = "mem" =>
        /\ status = "Running"
        /\ Len(mem_data) = Len(cpu_data)
        /\ Len(net_down_data) = Len(cpu_data)

\* The first sensor in enumeration order that has a reading.
FirstWithReading(temps) ==
    temps[CHOOSE i \in 1..Len(temps) :
            /\ temps[i].readings # <<>>
            /\ \A j \in 1..(i - 1) : temps[j].readings = <<>>]
SomeReading(reg) ==
    /\ ~reg.raises
    /\ \E i \in 1..Len(reg.temps) : reg.temps[i].readings # <<>>

RECURSIVE SumTo(_, _)
SumTo(f, n) == IF n = 0 THEN 0 ELSE f[n] + SumTo(f, n - 1)

\* C8: the baseline is stored before the first tick; every tick computes its
\* speeds against the counters the tick before stored; after a tick the stored
\* counters are the ones that tick read; the deltas add up to the distance
\* from the baseline.
C8_CounterSequencing ==
    /\ status = "Idle" =>
          (prev_recv = baseline.bytes_recv /\ prev_sent = baseline.bytes_sent)
    /\ \A i \in 1..Len(log) :
          /\ log[i].down * BytesPerKB = log[i].recv - PrevRecvAt(i)
          /\ log[i].up * BytesPerKB = log[i].sent - PrevSentAt(i)
          /\ (PrevRecvAt(i) = 1000 /\ log[i].recv = 2024) => log[i].down = 1
    /\ (program = "monitor_graph" /\ AllReadsOk /\ log # <<>>) =>
          /\ prev_recv = log[Len(log)].recv
          /\ prev_sent = log[Len(log)].sent
          /\ net_down_data[Len(net_down_data)] = log[Len(log)].down
          /\ net_up_data[Len(net_up_data)] = log[Len(log)].up
          /\ SumTo(DownLog, Len(log)) * BytesPerKB
                = prev_recv - baseline.bytes_recv
          /\ SumTo(UpLog, Len(log)) * BytesPerKB
                = prev_sent - baseline.bytes_sent
    /\ (program = "monitor" /\ status = "Running") =>
          /\ prev_recv = last.recv
          /\ prev_sent = last.sent
          /\ net_label[1] * BytesPerKB = last.recv - last.prev_recv
          /\ net_label[2] * BytesPerKB = last.sent - last.prev_sent
    /\ last.raised \in {"cpu", "mem", "disk", "net"} =>
          (prev_recv = last.prev_recv /\ prev_sent = last.prev_sent)

\* C8 witness: a tick read 2024 received bytes after the tick before stored
\* 1000, and pushed 1.0 KB/s.
C8_Witness ==
    /\ program = "monitor_graph"
    /\ status = "Running"
    /\ Len(log) >= 2
    /\ log[Len(log) - 1].recv = 1000
    /\ log[Len(log)].recv = 2024
    /\ prev_recv = 2024
    /\ net_down_data[Len(net_down_data)] = 1

\* C9 (as claimed): the six history lists always have the same length: a tick
\* performs all of its pushes or none.
C9_TickAtomic ==
    \A h \in 1..Len(Histories) : Len(Histories[h]) = Len(cpu_data)

\* C10: a tick whose temperature is the NaN sentinel leaves max_temp and
\* min_temp unchanged; neither ever holds the sentinel; they are the maximum
\* and minimum of the valid readings observed so far.
C10_NaNExcluded ==
    [][ /\ (Len(log') = Len(log) + 1 /\ IsNaN(log'[Len(log')].temp)) =>
              (max_temp' = max_temp /\ min_temp' = min_temp)
        /\ ~IsNaN(max_temp') /\ ~IsNaN(min_temp')
        /\ max_temp' = MaxValid'
        /\ min_temp' = MinValid' ]_vars

\* C10 witness: a valid reading after an unavailable one raised the maximum.
C10_Witness ==
    /\ program = "monitor_graph"
    /\ Len(log) = 3
    /\ log[1].temp = Fin(45)
    /\ IsNaN(log[2].temp)
    /\ log[3].temp = Fin(50)
    /\ max_temp = Fin(50)
    /\ min_temp = Fin(45)

=============================================================================
